---- MODULE Spec2Model ----
(***************************************************************************)
(* Model of exo-query: the catalog client (api.js, getExoplanets), the     *)
(* procedural texture synthesizer (generatePlanetTexture.js) and the part  *)
(* of App.js that fetches the catalog, selects a body and starts a         *)
(* synthesis.                                                              *)
(*                                                                         *)
(* JavaScript values are tagged records: Num(n), Undefined, Null, NaN.     *)
(* Temperatures, densities and tilts are integers.  Fractions are kept as  *)
(* integer numerators over a fixed denominator named next to each use.     *)
(***************************************************************************)
EXTENDS Integers, Sequences, FiniteSets, TLC

\* ------------------------------------------------------------------------
\* JavaScript values and the operators the code applies to them
\* ------------------------------------------------------------------------
Num(n) == [t |-> "num", v |-> n]
Undefined == [t |-> "undefined", v |-> 0]
Null == [t |-> "null", v |-> 0]
NaN == [t |-> "NaN", v |-> 0]

\* ToNumber as applied by the arithmetic and relational operators
ToNumber(x) ==
  CASE x.t = "num" -> x
    [] x.t = "null" -> Num(0)
    [] OTHER -> NaN

\* x > n for a numeric literal n; any comparison with NaN is false
JsGreater(x, n) == ToNumber(x).t = "num" /\ ToNumber(x).v > n

\* ------------------------------------------------------------------------
\* Static tables (generatePlanetTexture.js)
\* ------------------------------------------------------------------------
textures ==
  [mercury |-> "2k_mercury.jpg", venus |-> "2k_venus_surface.jpg",
   mars |-> "2k_mars.jpg", jupiter |-> "2k_jupiter.jpg",
   saturn |-> "2k_saturn.jpg", uranus |-> "2k_uranus.jpg",
   neptune |-> "2k_neptune.jpg"]

temperatures ==
  [terre |-> Num(288), mars |-> Num(210), jupiter |-> Num(165),
   saturne |-> Num(134), uranus |-> Num(76), neptune |-> Num(72),
   pluton |-> Num(44), haumea |-> Num(73), eris |-> Num(43),
   null |-> Null, eugenia |-> Num(90), sylvia |-> Num(90),
   orcus |-> Num(70), ida |-> Num(200), kleopatra |-> Num(220),
   quaoar |-> Num(70), makemake |-> Num(75)]

\* temperatures[key]: a property read of a missing key yields undefined
TemperatureLookup(key) ==
  IF key \in DOMAIN temperatures THEN temperatures[key] ELSE Undefined

\* ------------------------------------------------------------------------
\* selectPlanetTexture(exoplanet): reads exoplanet.bodyType and
\* exoplanet.avgTemp, the fields of the record it is handed
\* ------------------------------------------------------------------------
selectPlanetTexture(exoplanet) ==
  IF exoplanet.bodyType = "Gas Giant"
  THEN IF JsGreater(exoplanet.avgTemp, 500) THEN textures.jupiter
       ELSE textures.saturn
  ELSE IF exoplanet.bodyType = "Rocky"
       THEN IF JsGreater(exoplanet.avgTemp, 300) THEN textures.venus
            ELSE textures.mars
       ELSE textures.mercury

\* ------------------------------------------------------------------------
\* temperatureToColor(avgTemp)
\* ------------------------------------------------------------------------
minTemp == 50
maxTemp == 400

\* Denominator of normalizedTemp and of the hue: (maxTemp - minTemp)
HueDen == maxTemp - minTemp
\* Denominator of the hue2rgb argument t (h +/- 1/3)
TDen == 3 * HueDen
\* Denominator of a colour channel (6*t, then the 0.8 scaling)
ChanDen == 5 * (TDen \div 6)

JsMax(a, b) == IF a > b THEN a ELSE b
JsMin(a, b) == IF a < b THEN a ELSE b

\* normalizedTemp = Math.min(Math.max((avgTemp - minTemp) / (maxTemp - minTemp), 0), 1)
\* as a numerator over HueDen; NaN propagates through Math.max and Math.min
normalizedTemp(avgTemp) ==
  IF ToNumber(avgTemp).t = "NaN" THEN NaN
  ELSE Num(JsMin(JsMax(ToNumber(avgTemp).v - minTemp, 0), HueDen))

\* THREE.MathUtils.euclideanModulo(1 - normalizedTemp, 1), numerator over HueDen
HueArg(n) == IF n.t = "NaN" THEN NaN ELSE Num((HueDen - n.v) % HueDen)

\* THREE hue2rgb(p, q, t) as called by setHSL with s = 1, l = 0.5, i.e.
\* p = 0 and q = 1; t is a numerator over TDen, the result one over ChanDen.
\* Every comparison with a NaN t is false, so the final "return p" is taken.
hue2rgb(t) ==
  IF t.t = "NaN" THEN 0
  ELSE LET t1 == IF t.v < 0 THEN t.v + TDen ELSE t.v
           t2 == IF t1 > TDen THEN t1 - TDen ELSE t1
       IN IF 6 * t2 < TDen THEN (6 * t2 * ChanDen) \div TDen
          ELSE IF 2 * t2 < TDen THEN ChanDen
          ELSE IF 3 * t2 < 2 * TDen THEN (6 * (2 * TDen - 3 * t2) * ChanDen) \div (3 * TDen)
          ELSE 0

Shift(h, d) == IF h.t = "NaN" THEN NaN ELSE Num(3 * h.v + d)

\* color.setHSL(h, 1, 0.5): channels as numerators over ChanDen
setHSL(h) ==
  [r |-> hue2rgb(Shift(h, HueDen)),
   g |-> hue2rgb(Shift(h, 0)),
   b |-> hue2rgb(Shift(h, 0 - HueDen))]

temperatureToColor(avgTemp) == setHSL(HueArg(normalizedTemp(avgTemp)))

\* baseColor.multiplyScalar(0.8)
multiplyScalar08(c) ==
  [r |-> (4 * c.r) \div 5, g |-> (4 * c.g) \div 5, b |-> (4 * c.b) \div 5]

\* ------------------------------------------------------------------------
\* Bodies handed to generatePlanetTexture
\* ------------------------------------------------------------------------
\* aroundPlanet is null (present = FALSE) or an object whose planet field is
\* a string; the empty string stands for a falsy planet field.
NoPlanet == [present |-> FALSE, planet |-> ""]
Around(key) == [present |-> TRUE, planet |-> key]

BodyTypes == {"Gas Giant", "Rocky", "Moon"}
AvgTemps == {Undefined, Num(0), Num(30), Num(50), Num(225), Num(300),
             Num(301), Num(400), Num(500), Num(501)}
Densities == {Undefined, Num(5), Num(6)}
AxialTilts == {Undefined, Num(20), Num(21)}
AroundPlanets == {NoPlanet, Around(""), Around("mars"), Around("terre"),
                  Around("null"), Around("vesta")}

Bodies ==
  [bodyType : BodyTypes, avgTemp : AvgTemps, density : Densities,
   axialTilt : AxialTilts, aroundPlanet : AroundPlanets]

\* ------------------------------------------------------------------------
\* The canvas: textureSize x textureSize RGBA pixels.  The pixel loop treats
\* every pixel independently, so the buffer is followed at the pixels
\* PixelXs \X PixelYs, which lie on both sides of every band boundary.
\* ------------------------------------------------------------------------
textureSize == 1024

PixelXs == {0, 1, 512, 1023}
PixelYs == {0, 102, 103, 512, 921, 922, 1023}
Pixels == PixelXs \X PixelYs

\* Images an asset may decode to; ImagePixel is the canvas content after
\* context.drawImage(image, 0, 0, textureSize, textureSize).
Images == {"flat", "gradient"}
ImagePixel(img, x, y) ==
  IF img = "flat" THEN [r |-> 255, g |-> 128, b |-> 1, a |-> 255]
  ELSE [r |-> x % 256, g |-> y % 256, b |-> (x + y) % 256, a |-> 128 + (x % 2)]

drawImage(img) == [p \in Pixels |-> ImagePixel(img, p[1], p[2])]

Abs(n) == IF n < 0 THEN 0 - n ELSE n

\* Math.abs(ny) > polarEffect && Math.abs(nx) < 0.5, with
\* nx = x / textureSize - 0.5, ny = y / textureSize - 0.5, polarEffect = 0.4
InPolarBand(x, y) ==
  /\ 10 * Abs(2 * y - textureSize) > 4 * 2 * textureSize
  /\ Abs(2 * x - textureSize) < textureSize

\* Variant: the tilt threshold is inclusive
IcePixelInclusive(px, x, y, axialTilt) ==
  IF InPolarBand(x, y) /\ JsGreater(axialTilt, 19)
  THEN [px EXCEPT !.r = 255, !.g = 255, !.b = 255]
  ELSE px

\* First half of the loop body: the ice cap
IcePixel(px, x, y, axialTilt) ==
  IF InPolarBand(x, y) /\ JsGreater(axialTilt, 20)
  THEN [px EXCEPT !.r = 255, !.g = 255, !.b = 255]
  ELSE px

\* Store of the number num / den into a Uint8ClampedArray element:
\* round to nearest, ties to even, clamped to 0..255
ToUint8Clamp(num, den) ==
  LET q == num \div den
      r2 == 2 * (num % den)
      rounded == IF r2 > den THEN q + 1
                 ELSE IF r2 < den THEN q
                 ELSE IF q % 2 = 0 THEN q ELSE q + 1
  IN JsMin(JsMax(rounded, 0), 255)

\* Second half of the loop body: color = (data / 255) * baseColor, written
\* back as color * 255; the alpha element is not written
TintPixel(px, baseColor) ==
  [px EXCEPT !.r = ToUint8Clamp(px.r * baseColor.r, ChanDen),
             !.g = ToUint8Clamp(px.g * baseColor.g, ChanDen),
             !.b = ToUint8Clamp(px.b * baseColor.b, ChanDen)]

\* ------------------------------------------------------------------------
\* State
\* ------------------------------------------------------------------------
VARIABLES
  fetchPc,            \* position of fetchExoplanets: "init", "awaiting", "done"
  http,               \* the axios.get request: "idle", "pending", "ok", "failed"
  fetchResult,        \* settlement of the promise returned by getExoplanets
  exoplanets,         \* App state: the body list
  selectedExoplanet,  \* App state: the selected body
  loading,            \* App state
  crashed,            \* an uncaught TypeError escaped render or an effect
  calls,              \* the generatePlanetTexture calls made so far
  rendererRef,        \* rendererRef.current: call whose effect made the renderer, 0 = null
  planetRef,          \* planetRef.current: call whose planet mesh it holds, 0 = null
  animations,         \* calls whose animate loop is running, in starting order
  thens,              \* calls on whose promise App registered .then/.catch
  overlapped,         \* calls still pending when a later selection was made
  selectionEffect,    \* the random-selection effect of the last commit has yet to run
  sceneEffects        \* selections committed whose scene effect has yet to run

vars == <<fetchPc, http, fetchResult, exoplanets, selectedExoplanet, loading,
          crashed, calls, rendererRef, planetRef, animations, thens, overlapped,
          selectionEffect, sceneEffects>>

effectVars == <<selectionEffect, sceneEffects>>

sceneVars == <<rendererRef, planetRef, animations, thens, overlapped>>

appVars == <<fetchPc, http, fetchResult, exoplanets, selectedExoplanet,
             loading, crashed, selectionEffect, sceneEffects>>

\* Bounds
MaxCalls == 2
MaxCatalog == 2

\* ------------------------------------------------------------------------
\* generatePlanetTexture(exoplanet)
\* ------------------------------------------------------------------------
BlankPixel == [r |-> 0, g |-> 0, b |-> 0, a |-> 0]
BlankData == [p \in Pixels |-> BlankPixel]
NoColor == [r |-> 0, g |-> 0, b |-> 0]

\* Variant: the aroundPlanet override is not applied
EffectiveAvgTempNoOverride(exoplanet) == exoplanet.avgTemp

\* let { avgTemp, aroundPlanet } = exoplanet;
\* if (aroundPlanet && aroundPlanet.planet) avgTemp = temperatures[aroundPlanet.planet];
EffectiveAvgTemp(exoplanet) ==
  IF exoplanet.aroundPlanet.present /\ exoplanet.aroundPlanet.planet # ""
  THEN TemperatureLookup(exoplanet.aroundPlanet.planet)
  ELSE exoplanet.avgTemp

\* const texturePath = selectPlanetTexture(exoplanet);
SelectedPath(exoplanet) == selectPlanetTexture(exoplanet)

\* The synchronous part of the promise executor, up to the first
\* textureLoader.load(texturePath, ...)
NewCall(exoplanet) ==
  [body |-> exoplanet,
   avgTemp |-> EffectiveAvgTemp(exoplanet),
   texturePath |-> SelectedPath(exoplanet),
   pc |-> "primary",
   attempts |-> <<SelectedPath(exoplanet)>>,
   outcomes |-> <<>>,
   promise |-> "pending",
   settles |-> 0,
   value |-> "none",
   image |-> "none",
   normalized |-> NaN,
   hue |-> NaN,
   baseColor |-> NoColor,
   base |-> BlankData,
   iced |-> BlankData,
   data |-> BlankData]

\* Variant: the density threshold is inclusive
DensityAdjustInclusive(color, density) ==
  IF JsGreater(density, 4) THEN multiplyScalar08(color) ELSE color

\* if (density > 5) baseColor = baseColor.multiplyScalar(0.8);
DensityAdjust(color, density) ==
  IF JsGreater(density, 5) THEN multiplyScalar08(color) ELSE color

\* Success callback of the primary load: draw, tint, ice caps, pixel loop,
\* resolve(texture) with the canvas texture
PrimaryLoaded(c, img) ==
  LET baseColor == DensityAdjust(temperatureToColor(c.avgTemp), c.body.density)
      base == drawImage(img)
      iced == [p \in Pixels |-> IcePixel(base[p], p[1], p[2], c.body.axialTilt)]
      data == [p \in Pixels |-> TintPixel(iced[p], baseColor)]
  IN [c EXCEPT !.pc = "done",
               !.outcomes = Append(c.outcomes, "loaded"),
               !.promise = "resolved",
               !.settles = c.settles + 1,
               !.value = "canvas",
               !.image = img,
               !.normalized = normalizedTemp(c.avgTemp),
               !.hue = HueArg(normalizedTemp(c.avgTemp)),
               !.baseColor = baseColor,
               !.base = base,
               !.iced = iced,
               !.data = data]

\* Variant: the primary error callback rejects without trying the fallback
PrimaryFailedNoRetry(c) ==
  [c EXCEPT !.pc = "done",
            !.outcomes = Append(c.outcomes, "error"),
            !.promise = "rejected",
            !.settles = c.settles + 1,
            !.value = "error"]

\* Error callback of the primary load: textureLoader.load(textures.mercury, ...)
PrimaryFailed(c) ==
  [c EXCEPT !.pc = "fallback",
            !.outcomes = Append(c.outcomes, "error"),
            !.attempts = Append(c.attempts, textures.mercury)]

\* Success callback of the fallback load: resolve(fallbackTexture)
FallbackLoaded(c, img) ==
  [c EXCEPT !.pc = "done",
            !.outcomes = Append(c.outcomes, "loaded"),
            !.promise = "resolved",
            !.settles = c.settles + 1,
            !.value = "loaded texture",
            !.image = img]

\* Error callback of the fallback load: reject(fallbackError)
FallbackFailed(c) ==
  [c EXCEPT !.pc = "done",
            !.outcomes = Append(c.outcomes, "error"),
            !.promise = "rejected",
            !.settles = c.settles + 1,
            !.value = "error"]

\* ------------------------------------------------------------------------
\* getExoplanets (api.js)
\* ------------------------------------------------------------------------
EmptyArray == [t |-> "array", items |-> <<>>]
Array(items) == [t |-> "array", items |-> items]
NoItems == [t |-> "undefined", items |-> <<>>]

\* response.data of a successful request: an object with a bodies field
ResponseData(bodies) == [t |-> "object", bodies |-> bodies]
ArrayData == [t |-> "array", bodies |-> <<>>]

PendingResult == [kind |-> "pending", data |-> ArrayData]

\* try { const response = await axios.get(API_URL); return response.data; }
getExoplanetsTry(bodies) == [kind |-> "resolved", data |-> ResponseData(bodies)]

\* Variant: the catch block rethrows
getExoplanetsCatchRethrow == [kind |-> "rejected", data |-> ArrayData]

\* catch (error) { console.error(...); return []; }
getExoplanetsCatch == [kind |-> "resolved", data |-> ArrayData]

\* exoplanetData.bodies: an array has no bodies property
PropBodies(d) == IF d.t = "object" THEN Array(d.bodies) ELSE NoItems

\* ------------------------------------------------------------------------
\* App (App.js)
\* ------------------------------------------------------------------------
NullSel == [t |-> "null", i |-> 0]
UndefinedSel == [t |-> "undefined", i |-> 0]
BodySel(i) == [t |-> "body", i |-> i]

CatalogBodies ==
  {[bodyType |-> "Gas Giant", avgTemp |-> Num(501), density |-> Undefined,
    axialTilt |-> Num(21), aroundPlanet |-> NoPlanet],
   [bodyType |-> "Rocky", avgTemp |-> Num(301), density |-> Num(6),
    axialTilt |-> Num(20), aroundPlanet |-> Around("mars")]}

Catalogs == UNION {[1..n -> CatalogBodies] : n \in 0..MaxCatalog}

Init ==
  /\ fetchPc = "init"
  /\ http = "idle"
  /\ fetchResult = PendingResult
  /\ exoplanets = EmptyArray
  /\ selectedExoplanet = NullSel
  /\ loading = TRUE
  /\ crashed = FALSE
  /\ calls = <<>>
  /\ rendererRef = 0
  /\ planetRef = 0
  /\ animations = <<>>
  /\ thens = {}
  /\ overlapped = {}
  /\ selectionEffect = FALSE
  /\ sceneEffects = <<>>

\* First render and its effects: fetchExoplanets() runs up to the await of
\* getExoplanets(), which runs up to the await of axios.get; the other two
\* effects find an empty list and no selection.
Mount ==
  /\ fetchPc = "init"
  /\ fetchPc' = "awaiting"
  /\ http' = "pending"
  /\ UNCHANGED <<fetchResult, exoplanets, selectedExoplanet, loading, crashed, calls>>
  /\ UNCHANGED sceneVars
  /\ UNCHANGED effectVars

\* The request succeeds: getExoplanets returns response.data
HttpOk(bodies) ==
  /\ http = "pending"
  /\ http' = "ok"
  /\ fetchResult' = getExoplanetsTry(bodies)
  /\ UNCHANGED <<fetchPc, exoplanets, selectedExoplanet, loading, crashed, calls>>
  /\ UNCHANGED sceneVars
  /\ UNCHANGED effectVars

\* The request fails: the catch block of getExoplanets runs
HttpFail ==
  /\ http = "pending"
  /\ http' = "failed"
  /\ fetchResult' = getExoplanetsCatch
  /\ UNCHANGED <<fetchPc, exoplanets, selectedExoplanet, loading, crashed, calls>>
  /\ UNCHANGED sceneVars
  /\ UNCHANGED effectVars

\* The scene effect on a changed selectedExoplanet: if (!selectedExoplanet)
\* return; ... generatePlanetTexture(selectedExoplanet)
SceneEffect(cs, body) == Append(cs, NewCall(body))

\* The body of the scene effect: a new renderer on the canvas is stored in
\* rendererRef, generatePlanetTexture(selectedExoplanet) is called and
\* .then/.catch are registered.  The effect returns no cleanup, so the
\* calls and loops of earlier selections are left as they are.
StartScene(body) ==
  /\ calls' = SceneEffect(calls, body)
  /\ rendererRef' = Len(calls) + 1
  /\ thens' = thens \cup {Len(calls) + 1}
  /\ UNCHANGED <<planetRef, animations>>

\* The .then callback of call k: planetRef.current = planet; scene.add;
\* animate() renders once and re-requests itself every frame.  The function
\* it returns (renderer.dispose, removeEventListener) is never called.
ThenCallback(k) ==
  /\ planetRef' = k
  /\ animations' = Append(animations, k)
  /\ UNCHANGED <<rendererRef, thens, overlapped>>

\* What the canvas shows after a frame: the animate callbacks run in the
\* order they were first requested and every one renders its own scene to
\* the same canvas, so the loop started last draws last.  0 = nothing drawn.
Canvas == IF animations = <<>> THEN 0 ELSE animations[Len(animations)]

\* fetchExoplanets resumes after the await: setExoplanets(exoplanetData.bodies);
\* setLoading(false); then the render is committed.  A read of .length or
\* .indexOf on undefined throws a TypeError nothing catches.  With a
\* non-empty list the commit shows the select and the button with nothing
\* selected, and the random-selection effect is left to run after it.
FetchExoplanetsResume ==
  /\ fetchPc = "awaiting"
  /\ fetchResult.kind # "pending"
  /\ fetchPc' = "done"
  /\ loading' = FALSE
  /\ UNCHANGED <<http, fetchResult, selectedExoplanet, calls, sceneEffects>>
  /\ UNCHANGED sceneVars
  /\ IF fetchResult.kind = "rejected"
     THEN UNCHANGED <<exoplanets, crashed, selectionEffect>>
     ELSE /\ exoplanets' = PropBodies(fetchResult.data)
          /\ IF exoplanets'.t = "undefined"
             THEN /\ crashed' = TRUE
                  /\ UNCHANGED selectionEffect
             ELSE /\ selectionEffect' = (Len(exoplanets'.items) > 0)
                  /\ UNCHANGED crashed

\* setSelectedExoplanet(sel) and the commit of the render it causes: a
\* changed selection leaves the scene effect of that commit to run, with
\* the selection the render saw.  An unchanged one causes no render.
SetSelectedExoplanet(sel) ==
  /\ selectedExoplanet' = sel
  /\ IF sel # selectedExoplanet
     THEN /\ sceneEffects' = Append(sceneEffects, sel)
          /\ overlapped' = overlapped \cup
               {k \in 1..Len(calls) : calls[k].promise = "pending"}
     ELSE UNCHANGED <<sceneEffects, overlapped>>
  /\ UNCHANGED <<calls, rendererRef, planetRef, animations, thens>>

\* Calls started plus calls the effects still to run may start
CallsAhead ==
  Len(calls) + Len(sceneEffects) + (IF selectionEffect THEN 1 ELSE 0)

\* The random-selection effect (deps [exoplanets]) after the commit of the
\* fetched list: if (exoplanets.length > 0) setSelectedExoplanet(exoplanets[randomIndex])
RandomSelectionEffect ==
  /\ selectionEffect
  /\ selectionEffect' = FALSE
  /\ IF Len(exoplanets.items) > 0
     THEN \E i \in 1..Len(exoplanets.items) : SetSelectedExoplanet(BodySel(i))
     ELSE /\ UNCHANGED <<selectedExoplanet, sceneEffects>>
          /\ UNCHANGED <<calls, sceneVars>>
  /\ UNCHANGED <<fetchPc, http, fetchResult, exoplanets, loading, crashed>>

\* The scene effect (deps [selectedExoplanet]) of the oldest commit whose
\* effect has not run; the effects of a commit run before those of a later
\* one.  if (!selectedExoplanet) return;
RunSceneEffect ==
  /\ ~selectionEffect
  /\ sceneEffects # <<>>
  /\ sceneEffects' = Tail(sceneEffects)
  /\ IF Head(sceneEffects).t = "body"
     THEN /\ StartScene(exoplanets.items[Head(sceneEffects).i])
          /\ UNCHANGED overlapped
     ELSE /\ UNCHANGED calls
          /\ UNCHANGED sceneVars
  /\ UNCHANGED <<fetchPc, http, fetchResult, exoplanets, selectedExoplanet,
                 loading, crashed, selectionEffect>>

UiShown == fetchPc = "done" /\ ~loading /\ ~crashed /\ exoplanets.t = "array"

\* onChange of the select: setSelectedExoplanet(exoplanets[e.target.selectedIndex])
SelectExoplanet(i) ==
  /\ UiShown
  /\ i \in 1..Len(exoplanets.items)
  /\ selectedExoplanet # BodySel(i)
  /\ CallsAhead < MaxCalls
  /\ SetSelectedExoplanet(BodySel(i))
  /\ UNCHANGED <<fetchPc, http, fetchResult, exoplanets, loading, crashed,
                 selectionEffect>>

\* handleRandomExoplanet: exoplanets[Math.floor(Math.random() * exoplanets.length)];
\* on an empty list the index is 0 and the element undefined
handleRandomExoplanet ==
  /\ UiShown
  /\ IF Len(exoplanets.items) = 0
     THEN SetSelectedExoplanet(UndefinedSel)
     ELSE \E i \in 1..Len(exoplanets.items) :
            /\ selectedExoplanet # BodySel(i) => CallsAhead < MaxCalls
            /\ SetSelectedExoplanet(BodySel(i))
  /\ UNCHANGED <<fetchPc, http, fetchResult, exoplanets, loading, crashed,
                 selectionEffect>>

\* ------------------------------------------------------------------------
\* Load callbacks of call k
\* ------------------------------------------------------------------------
PrimaryLoadSuccess(k, img) ==
  /\ k \in 1..Len(calls)
  /\ calls[k].pc = "primary"
  /\ calls' = [calls EXCEPT ![k] = PrimaryLoaded(calls[k], img)]
  /\ IF k \in thens THEN ThenCallback(k) ELSE UNCHANGED sceneVars
  /\ UNCHANGED appVars

PrimaryLoadError(k) ==
  /\ k \in 1..Len(calls)
  /\ calls[k].pc = "primary"
  /\ calls' = [calls EXCEPT ![k] = PrimaryFailed(calls[k])]
  /\ UNCHANGED sceneVars
  /\ UNCHANGED appVars

FallbackLoadSuccess(k, img) ==
  /\ k \in 1..Len(calls)
  /\ calls[k].pc = "fallback"
  /\ calls' = [calls EXCEPT ![k] = FallbackLoaded(calls[k], img)]
  /\ IF k \in thens THEN ThenCallback(k) ELSE UNCHANGED sceneVars
  /\ UNCHANGED appVars

FallbackLoadError(k) ==
  /\ k \in 1..Len(calls)
  /\ calls[k].pc = "fallback"
  /\ calls' = [calls EXCEPT ![k] = FallbackFailed(calls[k])]
  /\ UNCHANGED sceneVars
  /\ UNCHANGED appVars

Loads ==
  \E k \in 1..MaxCalls :
    \/ \E img \in Images : PrimaryLoadSuccess(k, img)
    \/ PrimaryLoadError(k)
    \/ \E img \in Images : FallbackLoadSuccess(k, img)
    \/ FallbackLoadError(k)

Next ==
  \/ Mount
  \/ \E bodies \in Catalogs : HttpOk(bodies)
  \/ HttpFail
  \/ FetchExoplanetsResume
  \/ RandomSelectionEffect
  \/ RunSceneEffect
  \/ \E i \in 1..MaxCatalog : SelectExoplanet(i)
  \/ handleRandomExoplanet
  \/ Loads

Spec == Init /\ [][Next]_vars

\* ------------------------------------------------------------------------
\* The synthesizer on its own: one direct call of the exported
\* generatePlanetTexture with any body of Bodies
\* ------------------------------------------------------------------------
Generate(b) ==
  /\ calls = <<>>
  /\ calls' = <<NewCall(b)>>
  /\ UNCHANGED sceneVars
  /\ UNCHANGED appVars

NextSynth ==
  \/ \E b \in Bodies : Generate(b)
  \/ Loads

SpecSynth == Init /\ [][NextSynth]_vars

\* ========================================================================
\* Properties
\* ========================================================================
CallIds == 1..Len(calls)
Composited(c) == c.value = "canvas"
IsNum(x) == x.t = "num"

\* The effective temperature as the specification defines it: the table
\* value when aroundPlanet.planet is set and in the table, else avgTemp
ClaimedEffectiveTemp(b) ==
  IF b.aroundPlanet.present /\ b.aroundPlanet.planet \in DOMAIN temperatures
  THEN temperatures[b.aroundPlanet.planet]
  ELSE b.avgTemp

ClaimedAsset(b) ==
  LET T == ClaimedEffectiveTemp(b)
  IN IF b.bodyType = "Gas Giant"
     THEN IF IsNum(T) /\ T.v > 500 THEN textures.jupiter ELSE textures.saturn
     ELSE IF b.bodyType = "Rocky"
     THEN IF IsNum(T) /\ T.v > 300 THEN textures.venus ELSE textures.mars
     ELSE textures.mercury

\* C1: the asset a call loads first is the one selected from bodyType and
\* the effective temperature (override applied), with thresholds 500 / 300
\* and mercury for any other bodyType.
C1_AssetFromEffectiveTemp ==
  \A k \in CallIds : calls[k].attempts[1] = ClaimedAsset(calls[k].body)

\* C2: a call makes one load attempt of the selected asset, a second one
\* (of mercury) exactly when the first failed, never a third; its promise is
\* settled at most once and exactly once when the call is over; it is
\* resolved exactly when some attempt loaded and rejected exactly when both
\* attempts failed.
C2_LoadProtocol ==
  \A k \in CallIds :
    LET c == calls[k]
    IN /\ Len(c.attempts) \in {1, 2}
       /\ c.attempts[1] = c.texturePath
       /\ Len(c.outcomes) <= Len(c.attempts)
       /\ (Len(c.attempts) = 2) <=> (Len(c.outcomes) >= 1 /\ c.outcomes[1] = "error")
       /\ Len(c.attempts) = 2 => c.attempts[2] = textures.mercury
       /\ c.settles <= 1
       /\ (c.settles = 1) <=> (c.promise # "pending")
       /\ (Len(c.outcomes) = Len(c.attempts)) => c.settles = 1
       /\ (c.promise = "resolved") <=> (\E j \in 1..Len(c.outcomes) : c.outcomes[j] = "loaded")
       /\ (c.promise = "rejected") <=> (c.outcomes = <<"error", "error">>)

C2_Witness ==
  \E k \in CallIds :
    /\ calls[k].outcomes = <<"error", "loaded">>
    /\ calls[k].promise = "resolved"
    /\ calls[k].attempts[1] # textures.mercury

\* C3: the promise returned by getExoplanets is never rejected, and after a
\* failed request it is resolved with an empty array.
C3_GetExoplanetsNeverRejects ==
  /\ fetchResult.kind # "rejected"
  /\ http = "failed" =>
       /\ fetchResult.kind = "resolved"
       /\ fetchResult.data.t = "array"
       /\ fetchResult.data.bodies = <<>>

C3_Witness == http = "failed" /\ fetchResult.kind = "resolved" /\ fetchPc = "done"

\* C4: once a failed catalog fetch has been handled, the body list is an
\* empty collection, nothing is selected, loading is false, no synthesis
\* has been started and the App is not in an error state.
C4_EmptyListAfterFailure ==
  (http = "failed" /\ fetchPc = "done") =>
    /\ exoplanets = EmptyArray
    /\ selectedExoplanet = NullSel
    /\ loading = FALSE
    /\ calls = <<>>
    /\ ~crashed

OverrideInTable(b) ==
  b.aroundPlanet.present /\ b.aroundPlanet.planet \in DOMAIN temperatures

Tint(b) == DensityAdjust(temperatureToColor(EffectiveAvgTemp(b)), b.density)

\* C5: for a body whose aroundPlanet.planet is a key of the temperature
\* table, the temperature handed to temperatureToColor is the table value
\* (210 for mars), and the tint is the one of every body that differs from
\* it only in avgTemp.
C5_OverrideUsesTable ==
  \A k \in CallIds :
    LET c == calls[k]
    IN (Composited(c) /\ OverrideInTable(c.body)) =>
         /\ c.avgTemp = temperatures[c.body.aroundPlanet.planet]
         /\ c.body.aroundPlanet.planet = "mars" => c.avgTemp = Num(210)
         /\ c.normalized = normalizedTemp(temperatures[c.body.aroundPlanet.planet])
         /\ \A t \in AvgTemps : Tint([c.body EXCEPT !.avgTemp = t]) = c.baseColor

C5_Witness ==
  \E k \in CallIds :
    /\ Composited(calls[k])
    /\ calls[k].body.aroundPlanet = Around("mars")
    /\ calls[k].body.avgTemp = Num(501)
    /\ calls[k].avgTemp = Num(210)

\* C6: every resolved call yields the composited canvas (base image drawn,
\* ice caps, tint multiplication), whichever asset was loaded, never the
\* loaded image itself.
C6_ResolvedIsComposited ==
  \A k \in CallIds :
    LET c == calls[k]
    IN c.promise = "resolved" =>
         /\ c.value = "canvas"
         /\ c.base = drawImage(c.image)
         /\ \A p \in Pixels : c.data[p] = TintPixel(c.iced[p], c.baseColor)

Clamp(n, lo, hi) == IF n < lo THEN lo ELSE IF n > hi THEN hi ELSE n

\* C7: the hue is (1 - normalized) * 240 degrees with
\* normalized = clamp((T - 50) / 350, 0, 1), i.e. blue at the cold end, red
\* at the hot end, and the tint at 50 differs from the tint at 400.
\* The hue of a call is c.hue.v / HueDen of a full turn of 360 degrees.
C7_HueSweepBlueToRed ==
  \A k \in CallIds :
    LET c == calls[k]
    IN (Composited(c) /\ IsNum(c.avgTemp)) =>
         /\ IsNum(c.hue)
         /\ c.hue.v * 360 = (HueDen - Clamp(c.avgTemp.v - 50, 0, 350)) * 240
         /\ c.avgTemp.v <= 50 => setHSL(c.hue) # temperatureToColor(Num(400))

\* C8: the normalized temperature of every composited call is a number in
\* [0,1] (numerator in 0..HueDen), and 0 when the effective temperature is
\* missing; never NaN.
C8_NormalizedWellDefined ==
  \A k \in CallIds :
    LET c == calls[k]
    IN Composited(c) =>
         /\ IsNum(c.normalized)
         /\ c.normalized.v \in 0..HueDen
         /\ ~IsNum(c.avgTemp) => c.normalized.v = 0

\* |ny| > 0.4 and |nx| < 0.5 for nx = x/1024 - 0.5, ny = y/1024 - 0.5
ClaimedCap(x, y) == 5 * Abs(y - 512) > 2 * 1024 /\ Abs(x - 512) < 512
SameRGB(p, q) == p.r = q.r /\ p.g = q.g /\ p.b = q.b
\* v is num / den rounded to the nearest integer
Nearest(v, num, den) == 2 * Abs(den * v - num) <= den

\* C9: with axialTilt > 20 every pixel of the polar band is white before
\* the tint (its final RGB is the tint scaled to 8 bits) and every other
\* pixel keeps the base RGB before the tint; with axialTilt <= 20 or absent
\* no pixel is overridden; alpha is never changed.
C9_IceCap ==
  \A k \in CallIds :
    LET c == calls[k]
        tilted == IsNum(c.body.axialTilt) /\ c.body.axialTilt.v > 20
    IN Composited(c) =>
         \A p \in Pixels :
           LET base == ImagePixel(c.image, p[1], p[2])
           IN /\ (tilted /\ ClaimedCap(p[1], p[2])) =>
                   /\ c.iced[p].r = 255 /\ c.iced[p].g = 255 /\ c.iced[p].b = 255
                   /\ Nearest(c.data[p].r, 255 * c.baseColor.r, ChanDen)
                   /\ Nearest(c.data[p].g, 255 * c.baseColor.g, ChanDen)
                   /\ Nearest(c.data[p].b, 255 * c.baseColor.b, ChanDen)
              /\ ~(tilted /\ ClaimedCap(p[1], p[2])) =>
                   /\ SameRGB(c.iced[p], base)
                   /\ Nearest(c.data[p].r, base.r * c.baseColor.r, ChanDen)
                   /\ Nearest(c.data[p].g, base.g * c.baseColor.g, ChanDen)
                   /\ Nearest(c.data[p].b, base.b * c.baseColor.b, ChanDen)
              /\ c.iced[p].a = base.a
              /\ c.data[p].a = base.a

C9_Witness ==
  \E k \in CallIds :
    /\ Composited(calls[k])
    /\ calls[k].body.axialTilt = Num(21)
    /\ calls[k].image = "gradient"
    /\ calls[k].iced[<<1, 102>>].r = 255
    /\ calls[k].iced[<<1, 103>>].r = 1
    /\ calls[k].iced[<<0, 0>>].g = 0
    /\ calls[k].baseColor # NoColor

Dense(b) == IsNum(b.density) /\ b.density.v > 5
FiveFourths(dark, plain) ==
  /\ 5 * dark.r = 4 * plain.r /\ 5 * dark.g = 4 * plain.g /\ 5 * dark.b = 4 * plain.b
  /\ dark.r <= plain.r /\ dark.g <= plain.g /\ dark.b <= plain.b

\* C10: the tint of a body with density > 5 is, channel by channel, 0.8
\* times (hence <=) the tint of the same body with density <= 5 or absent;
\* for density <= 5 or absent the tint is exactly the temperature colour.
C10_DensityDarkening ==
  \A k \in CallIds :
    LET c == calls[k]
    IN Composited(c) =>
         /\ ~Dense(c.body) => c.baseColor = temperatureToColor(c.avgTemp)
         /\ Dense(c.body) =>
              /\ FiveFourths(c.baseColor, temperatureToColor(c.avgTemp))
              /\ \A d \in Densities :
                   ~Dense([c.body EXCEPT !.density = d]) =>
                     FiveFourths(c.baseColor, Tint([c.body EXCEPT !.density = d]))

C10_Witness ==
  \E k \in CallIds :
    /\ Composited(calls[k])
    /\ calls[k].body.density = Num(6)
    /\ calls[k].avgTemp = Num(225)
    /\ calls[k].baseColor.g > 0

\* C11: when body B was selected while the synthesis of the previously
\* selected body A was pending, then once every synthesis has settled (B's
\* resolved), in any order, planetRef and the canvas hold the planet built
\* for B, and at most one animation loop is drawing to the canvas.
C11_LatestSelectionWins ==
  LET n == Len(calls)
  IN (/\ n >= 2
      /\ (n - 1) \in overlapped
      /\ \A k \in 1..n : calls[k].pc = "done"
      /\ calls[n].promise = "resolved") =>
       /\ planetRef = n
       /\ Canvas = n
       /\ Len(animations) <= 1

====
